---- MODULE Spec2Model ----
(***************************************************************************)
(* Identity resolution and account linking of the expense tracker's API    *)
(* server (src/unnamed/part_002): the users and user_providers tables, the *)
(* cookie session holding linkingUserId / lineState, and the handlers of   *)
(* the /api/auth routes.  Every await on the database or on the session    *)
(* store is a separate step, so handlers of different requests interleave  *)
(* exactly where the Node event loop lets them.                            *)
(***************************************************************************)
EXTENDS Integers, FiniteSets, Sequences, Bags, TLC

\* ---------------------------------------------------------------- bounds
\* requests the two-at-a-time specifications follow from the empty database
MaxRequests == 5

\* ------------------------------------------------------------ input sets
Reqs == {"r1", "r2"}
Browsers == {"b1"}
Providers == {"google", "line"}
NoUser == ""
NoState == 0

\* External profiles the two providers can report.  email "" is LINE's
\* "no email disclosed" (getIdTokenUser: payload.email || null).
GoogleProfiles == { [id |-> "g1", email |-> "a@x.com"] }

LineProfiles ==
  { [id |-> "l1", email |-> "a@x.com"], [id |-> "l2", email |-> ""] }

NoProfile == [id |-> "", email |-> ""]

ExchangeFailed == [id |-> "", email |-> "exchange failed"]

\* gen_random_uuid() of the users row created from an external identity.
\* users has unique(provider, provider_id) and no row is ever deleted, so at
\* most one row is ever created from an identity: the identity names the id.
NewUserId(profile) == "U-" \o profile.id

UserIds == { NewUserId(p) : p \in GoogleProfiles \cup LineProfiles }

VARIABLES
  users,            \* table users: rows [id, email, provider, provider_id]
  user_providers,   \* table user_providers: a bag of rows
                    \*   [user_id, provider, provider_id]
  store,            \* session store: browser -> session object
  req,              \* request slot -> the handler invocation running in it
  keepSessionInfo,  \* does passport's req.logIn keep the session object?
  tokens,           \* user ids a JWT was issued for
  started,          \* requests started so far (counted where bounded)
  handedOut,        \* browser -> a callback took the pending linkingUserId
                    \*   since the last prepare-link
  ttlElapsed,       \* browser -> the linking TTL passed since prepare-link
  preparedFor,      \* browser -> the provider whose prepare-link route set
                    \*   the session's linkingUserId ("" when none is set)
  stateFrom         \* browser -> the route that stored the session's
                    \*   lineState: "lineauth", "linelink" ("" when none)

vars == << users, user_providers, store, req, keepSessionInfo, tokens, started,
           handedOut, ttlElapsed, preparedFor, stateFrom >>

\* what only logins, linking and the clock touch
aux ==
  << keepSessionInfo, tokens, handedOut, ttlElapsed, preparedFor, stateFrom >>

tables == << users, user_providers >>

\* ------------------------------------------------------------- sessions
EmptySession ==
  [linkingUserId |-> NoUser, lineState |-> NoState]

\* ------------------------------------------------------------- requests
Idle ==
  [pc |-> "idle", kind |-> "none", browser |-> "b1", uid |-> NoUser,
   provider |-> "", profile |-> NoProfile, sess |-> EmptySession,
   dirty |-> FALSE, user |-> NoUser, newUser |-> NoUser, pending |-> NoUser,
   accepted |-> FALSE, missed |-> FALSE, out |-> "none", why |-> "",
   state |-> NoState]

\* A request that reached its response (out) for a reason (why).  What is
\* left to do is to save the session if the handler changed it.
Responding(q, outcome, reason) ==
  [q EXCEPT !.pc = "respond", !.out = outcome, !.why = reason,
            !.newUser = NoUser,
            !.sess = IF q.dirty THEN q.sess ELSE EmptySession]

\* ------------------------------------------------------------ SQL helpers
ProviderRows == BagToSet(user_providers)

\* the lookup with its WHERE clause reduced to up.provider = $1
SelectUserByProviderKindOnly(provider, providerId) ==
  { u \in users : \E up \in ProviderRows :
       up.user_id = u.id /\ up.provider = provider }

\* SELECT up.*, u.* FROM user_providers up JOIN users u ON up.user_id = u.id
\*   WHERE up.provider = $1 AND up.provider_id = $2
\* (node-postgres keeps the last column of a name, so id, email, provider
\* and provider_id of a returned row are those of the users row).
SelectUserByProvider(provider, providerId) ==
  { u \in users : \E up \in ProviderRows :
       /\ up.user_id = u.id
       /\ up.provider = provider
       /\ up.provider_id = providerId }

\* an email comparison that never matches (a different column, a
\* different normalisation)
SelectUserByEmailNoMatch(email) == {}

\* SELECT * FROM users WHERE email = $1
SelectUserByEmail(email) == { u \in users : u.email = email }

\* a user_providers insert without the table's unique(provider, provider_id)
ProviderConflictNoConstraint(provider, providerId) == FALSE

\* unique(provider, provider_id) of user_providers: does the insert violate it?
ProviderConflict(provider, providerId) ==
  \E up \in ProviderRows :
     up.provider = provider /\ up.provider_id = providerId

\* INSERT INTO user_providers (user_id, provider, provider_id, ...)
InsertProvider(userId, provider, providerId) ==
  user_providers (+) SetToBag({ [user_id |-> userId, provider |-> provider,
                                  provider_id |-> providerId] })

\* the rows of user_providers that satisfy Keep, as a bag
RowsWhere(Keep(_)) ==
  [up \in { x \in ProviderRows : Keep(x) } |-> user_providers[up]]

\* rows of one user in user_providers
LinksOf(userId) == LET Mine(up) == up.user_id = userId IN RowsWhere(Mine)

\* a COUNT that forgets the provider != $2 condition
CountOtherAccountsIgnoringProvider(userId, provider) ==
  BagCardinality(LinksOf(userId))

\* SELECT COUNT(*) FROM user_providers WHERE user_id = $1 AND provider != $2
CountOtherAccounts(userId, provider) ==
  LET Other(up) == up.user_id = userId /\ up.provider # provider
  IN  BagCardinality(RowsWhere(Other))

\* DELETE FROM user_providers WHERE user_id = $1 AND provider = $2
DeleteProvider(userId, provider) ==
  LET Stays(up) == ~(up.user_id = userId /\ up.provider = provider)
  IN  RowsWhere(Stays)

\* ------------------------------------------------------------------ Init
Init ==
  /\ users = {}
  /\ user_providers = EmptyBag
  /\ store = [b \in Browsers |-> EmptySession]
  /\ req = [r \in Reqs |-> Idle]
  /\ keepSessionInfo \in BOOLEAN
  /\ tokens = {}
  /\ started = 0
  /\ handedOut = [b \in Browsers |-> FALSE]
  /\ ttlElapsed = [b \in Browsers |-> FALSE]
  /\ preparedFor = [b \in Browsers |-> ""]
  /\ stateFrom = [b \in Browsers |-> ""]

\* authenticateToken: jwt.verify accepts the tokens the server signed
\* (jwt.sign in the two callbacks, valid for 30 days)
TokenHolders == tokens

\* --------------------------------------------------------------- unlink
\* app.delete('/api/auth/linked-accounts/:provider'): provider check and
\* the COUNT query.
UnlinkCount(r, userId, provider) ==
  /\ req[r].pc = "idle"
  /\ userId \in TokenHolders
  /\ LET q == [Idle EXCEPT !.kind = "unlink", !.uid = userId,
                           !.provider = provider]
     IN  req' = [req EXCEPT ![r] =
            IF provider \notin Providers
              THEN Responding(q, "400", "invalid provider")
            ELSE IF CountOtherAccounts(userId, provider) = 0
              THEN Responding(q, "400", "last account")
            ELSE [q EXCEPT !.pc = "unlink_delete"]]
  /\ UNCHANGED << tables, store, aux >>

\* the DELETE, then res.json({message: 'Account unlinked successfully'})
UnlinkDelete(r) ==
  /\ req[r].pc = "unlink_delete"
  /\ user_providers' = DeleteProvider(req[r].uid, req[r].provider)
  /\ req' = [req EXCEPT ![r] = Responding(@, "200", "")]
  /\ UNCHANGED << users, store, aux >>

\* ------------------------------------------------------- session routes
\* express-session hands each request its own copy of the stored session
\* (store.get before the handler) and writes the whole copy back at the end
\* of the response if the handler changed it (resave: false).
LoadSession(b) == store[b]

\* app.post('/api/auth/{google,line}/prepare-link'):
\*   req.session.linkingUserId = req.user.userId
PrepareLink(r, b, userId, provider) ==
  /\ req[r].pc = "idle"
  /\ userId \in TokenHolders
  /\ LET s == LoadSession(b)
         q == [Idle EXCEPT !.kind = "prepare", !.browser = b, !.uid = userId,
                 !.provider = provider,
                 !.sess = [s EXCEPT !.linkingUserId = userId],
                 !.dirty = (s.linkingUserId # userId)]
     IN  req' = [req EXCEPT ![r] = Responding(q, "200", "")]
  /\ UNCHANGED << tables, store, aux >>

\* Math.random().toString(36).substring(7): a value unlike any state value
\* still held by a session or by a request's copy of one.  Handlers only
\* compare state values for equality, so the least such value stands for it.
StateValues == 1..(Cardinality(Reqs) + Cardinality(Browsers))

StatesInUse ==
  { store[b].lineState : b \in Browsers } \cup
  { req[x].sess.lineState : x \in Reqs }

FreshState ==
  CHOOSE v \in StateValues \ StatesInUse :
    \A w \in StateValues \ StatesInUse : v <= w

\* app.get('/api/auth/line'): req.session.lineState = state
LineAuth(r, b) ==
  /\ req[r].pc = "idle"
  /\ LET s == LoadSession(b)
         q == [Idle EXCEPT !.kind = "lineauth", !.browser = b,
                 !.sess = [s EXCEPT !.lineState = FreshState],
                 !.dirty = TRUE]
     IN  req' = [req EXCEPT ![r] = Responding(q, "redirect", "")]
  /\ UNCHANGED << tables, store, aux >>

\* app.get('/api/auth/line/link'): 401 unless linkingUserId is in the session
LineLink(r, b) ==
  /\ req[r].pc = "idle"
  /\ LET s == LoadSession(b)
         q == [Idle EXCEPT !.kind = "linelink", !.browser = b, !.sess = s]
     IN  req' = [req EXCEPT ![r] =
           IF s.linkingUserId = NoUser
             THEN Responding(q, "401", "not prepared")
             ELSE Responding([q EXCEPT !.sess.lineState = FreshState,
                                       !.dirty = TRUE], "redirect", "")]
  /\ UNCHANGED << tables, store, aux >>

\* End of a response: express-session saves the request's copy of the
\* session if the handler changed it, and the request is over.
Respond(r) ==
  /\ req[r].pc = "respond"
  /\ store' = IF req[r].dirty
                THEN [store EXCEPT ![req[r].browser] = req[r].sess]
                ELSE store
  /\ ttlElapsed' = IF req[r].kind = "prepare"
                     THEN [ttlElapsed EXCEPT ![req[r].browser] = FALSE]
                     ELSE ttlElapsed
  /\ handedOut' = IF req[r].kind = "prepare"
                    THEN [handedOut EXCEPT ![req[r].browser] = FALSE]
                    ELSE handedOut
  /\ tokens' = IF req[r].out = "token" THEN tokens \cup {req[r].user}
                ELSE tokens
  /\ preparedFor' =
       IF req[r].kind = "prepare"
         THEN [preparedFor EXCEPT ![req[r].browser] = req[r].provider]
       ELSE IF req[r].dirty /\ req[r].sess.linkingUserId = NoUser
         THEN [preparedFor EXCEPT ![req[r].browser] = ""]
       ELSE preparedFor
  /\ stateFrom' =
       IF req[r].kind \in {"lineauth", "linelink"} /\ req[r].dirty
         THEN [stateFrom EXCEPT ![req[r].browser] = req[r].kind]
       ELSE IF req[r].dirty /\ req[r].sess.lineState = NoState
         THEN [stateFrom EXCEPT ![req[r].browser] = ""]
       ELSE stateFrom
  /\ req' = [req EXCEPT ![r] = Idle]
  /\ UNCHANGED << tables, keepSessionInfo >>

\* --------------------------------------------------- provider callbacks
\* const email = profile.email || `${profile.id}@line.user`
LineEmail(profile) ==
  IF profile.email # "" THEN profile.email ELSE profile.id \o "@line.user"

\* the email column of the users row a callback of this kind inserts
NewUserEmail(q) ==
  IF q.kind = "linecb" THEN LineEmail(q.profile) ELSE q.profile.email

\* what the catch of each callback answers:
\*   LINE   res.redirect(.../settings?error=line_oauth_failed)
\*   Google done(error) inside the strategy: passport passes it to next(err)
CallbackError(q) ==
  IF q.kind = "linecb" THEN "error line_oauth_failed" ELSE "500 verify error"

\* a state check that only asks for a state to be present
StateRejectedOnlyIfMissing(state, s) == state = NoState

\* if (!state || state !== req.session.lineState)
StateRejected(state, s) == state = NoState \/ state # s.lineState

\* app.get('/api/auth/line/callback'): the state check, then the code
\* exchange and the profile (exchangeCodeForToken, getIdTokenUser).
LineCallback(r, b, state, exchanged) ==
  /\ req[r].pc = "idle"
  /\ LET s == LoadSession(b)
         q == [Idle EXCEPT !.kind = "linecb", !.browser = b, !.sess = s,
                           !.provider = "line", !.state = state]
     IN  req' = [req EXCEPT ![r] =
           IF StateRejected(state, s)
             THEN Responding(q, "error line_oauth_failed", "state mismatch")
           ELSE IF exchanged = ExchangeFailed
             THEN Responding([q EXCEPT !.accepted = TRUE,
                                       !.pending = s.linkingUserId],
                             "error line_oauth_failed", "exchange failed")
           ELSE [q EXCEPT !.pc = "line_lookup", !.accepted = TRUE,
                          !.pending = s.linkingUserId,
                          !.profile = exchanged]]
  /\ UNCHANGED << tables, store, aux >>

\* delete req.session.lineState; jwt.sign({userId: user.id, ...}); redirect
LineLogin(q, userId) ==
  Responding([q EXCEPT !.user = userId,
                       !.dirty = (q.dirty \/ q.sess.lineState # NoState),
                       !.sess.lineState = NoState], "token", "")

\* the lookup with the new-user branch placed before the linking branch
LineLookupIgnoresPending(r) ==
  /\ req[r].pc = "line_lookup"
  /\ LET q == req[r]
         found == SelectUserByProvider("line", q.profile.id)
     IN  req' = [req EXCEPT ![r] =
           IF found # {}
             THEN LineLogin(q, (CHOOSE u \in found : TRUE).id)
             ELSE [q EXCEPT !.pc = "tx_user", !.missed = TRUE]]
  /\ UNCHANGED << tables, store, aux >>

\* the lookup by ('line', providerId) and the branch it decides; the
\* linking branch reads req.session.linkingUserId and deletes it
LineLookup(r) ==
  /\ req[r].pc = "line_lookup"
  /\ LET q == req[r]
         found == SelectUserByProvider("line", q.profile.id)
         links == found = {} /\ q.sess.linkingUserId # NoUser
     IN  /\ req' = [req EXCEPT ![r] =
              IF found # {}
                THEN LineLogin(q, (CHOOSE u \in found : TRUE).id)
              ELSE IF links
                THEN [q EXCEPT !.pc = "line_link", !.missed = TRUE,
                               !.uid = q.sess.linkingUserId,
                               !.sess.linkingUserId = NoUser,
                               !.dirty = TRUE]
              ELSE [q EXCEPT !.pc = "tx_user", !.missed = TRUE]]
         /\ handedOut' = IF links THEN [handedOut EXCEPT ![q.browser] = TRUE]
                         ELSE handedOut
  /\ UNCHANGED << tables, store, keepSessionInfo, tokens, ttlElapsed,
                  preparedFor, stateFrom >>

\* INSERT INTO user_providers (user_id, provider, provider_id, ...) outside
\* a transaction; a unique violation throws.
LineLinkInsert(r) ==
  /\ req[r].pc = "line_link"
  /\ LET q == req[r]
     IN  IF ProviderConflict("line", q.profile.id)
           THEN /\ req' = [req EXCEPT ![r] =
                     Responding(q, CallbackError(q), "unique violation")]
                /\ UNCHANGED user_providers
           ELSE /\ user_providers' = InsertProvider(q.uid, "line", q.profile.id)
                /\ req' = [req EXCEPT ![r] =
                     Responding([q EXCEPT !.user = q.uid], "linked line", "")]
  /\ UNCHANGED << users, store, aux >>

\* ------------------------------------------- the new-user transaction
\* rows other transactions have inserted and not yet committed
InFlight == { r \in Reqs : req[r].pc = "tx_provider" }

\* users: email unique, unique(provider, provider_id)
UserConflict(email, provider, providerId) ==
  \E u \in users :
     \/ u.email = email
     \/ u.provider = provider /\ u.provider_id = providerId

\* the users insert sent through pool.query instead of the transaction's
\* client: the row is stored at once, whatever happens to the transaction
TxInsertUserAutocommit(r) ==
  /\ req[r].pc = "tx_user"
  /\ LET q == req[r]
         email == NewUserEmail(q)
     IN  IF UserConflict(email, q.provider, q.profile.id)
           THEN /\ req' = [req EXCEPT ![r] =
                     Responding(q, CallbackError(q), "unique violation")]
                /\ UNCHANGED users
           ELSE /\ users' = users \cup
                     { [id |-> NewUserId(q.profile), email |-> email,
                        provider |-> q.provider,
                        provider_id |-> q.profile.id] }
                /\ req' = [req EXCEPT ![r] =
                     [q EXCEPT !.pc = "tx_provider",
                               !.newUser = NewUserId(q.profile)]]
  /\ UNCHANGED << user_providers, store, aux >>

\* BEGIN; INSERT INTO users ... RETURNING *.  The insert waits while another
\* transaction holds an uncommitted row with one of its unique keys.
TxInsertUser(r) ==
  /\ req[r].pc = "tx_user"
  /\ LET q == req[r]
         email == NewUserEmail(q)
     IN  /\ \A x \in InFlight :
              /\ NewUserEmail(req[x]) # email
              /\ ~(req[x].provider = q.provider
                     /\ req[x].profile.id = q.profile.id)
         /\ IF UserConflict(email, q.provider, q.profile.id)
              THEN \* ROLLBACK; throw error
                   req' = [req EXCEPT ![r] =
                     Responding(q, CallbackError(q), "unique violation")]
              ELSE req' = [req EXCEPT ![r] =
                     [q EXCEPT !.pc = "tx_provider",
                               !.newUser = NewUserId(q.profile)]]
  /\ UNCHANGED << tables, store, aux >>

\* INSERT INTO user_providers ...; COMMIT; on a unique violation the catch
\* rolls the transaction back and rethrows.  After COMMIT come
\* addDefaultCategoriesForUser and addDefaultPromptForUser: plain pool.query
\* inserts into categories and user_prompts, tables of the expense side that
\* no handler here reads, so the model keeps only whether they succeeded.
\* Either can throw; the catch then issues a ROLLBACK that has nothing left
\* to undo and rethrows.
TxInsertProviderCommit(r, seeded) ==
  /\ req[r].pc = "tx_provider"
  /\ LET q == req[r]
     IN  IF ProviderConflict(q.provider, q.profile.id)
           THEN /\ seeded
                /\ req' = [req EXCEPT ![r] =
                     Responding(q, CallbackError(q), "unique violation")]
                /\ UNCHANGED << users, user_providers >>
           ELSE /\ users' = users \cup
                     { [id |-> q.newUser, email |-> NewUserEmail(q),
                        provider |-> q.provider,
                        provider_id |-> q.profile.id] }
                /\ user_providers' =
                     InsertProvider(q.newUser, q.provider, q.profile.id)
                /\ req' = [req EXCEPT ![r] =
                     IF ~seeded
                       THEN [Responding(q, CallbackError(q), "seeding failed")
                               EXCEPT !.newUser = q.newUser]
                     ELSE IF q.kind = "linecb" THEN LineLogin(q, q.newUser)
                     ELSE [q EXCEPT !.pc = "google_login",
                                    !.user = q.newUser, !.newUser = NoUser]]
  /\ UNCHANGED << store, aux >>

\* A statement of the transaction fails for a reason of the database's own
\* (connection lost, ...): catch, ROLLBACK, rethrow.
TxFail(r) ==
  /\ req[r].pc = "tx_provider"
  /\ req' = [req EXCEPT ![r] =
       Responding(@, CallbackError(@), "database failure")]
  /\ UNCHANGED << tables, store, aux >>

\* ------------------------------------------------------ Google callback
\* app.get('/api/auth/google/callback'): passport.authenticate('google')
\* exchanges the code (no state option is set, so none is verified); an
\* authentication that yields no profile (the user denied consent) goes to
\* failureRedirect.  GET /api/auth/google stores nothing in the session and
\* sends no state, so the callback comes back with none (state = NoState).
GoogleCallback(r, b, exchanged) ==
  /\ req[r].pc = "idle"
  /\ LET s == LoadSession(b)
         q == [Idle EXCEPT !.kind = "googlecb", !.browser = b, !.sess = s,
                 !.provider = "google", !.accepted = TRUE,
                 !.pending = s.linkingUserId]
     IN  req' = [req EXCEPT ![r] =
           IF exchanged = ExchangeFailed
             THEN Responding(q, "redirect /login?error=google",
                             "authentication failed")
             ELSE [q EXCEPT !.pc = "google_lookup", !.profile = exchanged]]
  /\ UNCHANGED << tables, store, aux >>

\* verify with the email lookup placed before the provider lookup
GoogleLookupEmailFirst(r) ==
  /\ req[r].pc = "google_lookup"
  /\ req' = [req EXCEPT ![r] = [@ EXCEPT !.pc = "google_email",
                                           !.missed = TRUE]]
  /\ UNCHANGED << tables, store, aux >>

\* GoogleStrategy verify: the lookup by ('google', providerId)
GoogleLookup(r) ==
  /\ req[r].pc = "google_lookup"
  /\ LET q == req[r]
         found == SelectUserByProvider("google", q.profile.id)
     IN  req' = [req EXCEPT ![r] =
           IF found # {}
             THEN [q EXCEPT !.pc = "google_login",
                            !.user = (CHOOSE u \in found : TRUE).id]
             ELSE [q EXCEPT !.pc = "google_email", !.missed = TRUE]]
  /\ UNCHANGED << tables, store, aux >>

\* verify handing the user found by email to done() without storing the
\* user_providers row of the Google identity
GoogleEmailLookupNoInsert(r) ==
  /\ req[r].pc = "google_email"
  /\ LET q == req[r]
         found == SelectUserByEmail(q.profile.email)
     IN  req' = [req EXCEPT ![r] =
           IF found # {}
             THEN [q EXCEPT !.pc = "google_login",
                            !.user = (CHOOSE u \in found : TRUE).id]
             ELSE [q EXCEPT !.pc = "tx_user"]]
  /\ UNCHANGED << tables, store, aux >>

\* GoogleStrategy verify: SELECT * FROM users WHERE email = $1
GoogleEmailLookup(r) ==
  /\ req[r].pc = "google_email"
  /\ LET q == req[r]
         found == SelectUserByEmail(q.profile.email)
     IN  req' = [req EXCEPT ![r] =
           IF found # {}
             THEN [q EXCEPT !.pc = "google_fallback",
                            !.user = (CHOOSE u \in found : TRUE).id]
             ELSE [q EXCEPT !.pc = "tx_user"]]
  /\ UNCHANGED << tables, store, aux >>

\* GoogleStrategy verify: link this Google account to the user found by
\* email (plain pool.query insert), then done(null, existingUser.rows[0])
GoogleFallbackInsert(r) ==
  /\ req[r].pc = "google_fallback"
  /\ LET q == req[r]
     IN  IF ProviderConflict("google", q.profile.id)
           THEN /\ req' = [req EXCEPT ![r] =
                     Responding([q EXCEPT !.user = NoUser], CallbackError(q),
                                "unique violation")]
                /\ UNCHANGED user_providers
           ELSE /\ user_providers' =
                     InsertProvider(q.user, "google", q.profile.id)
                /\ req' = [req EXCEPT ![r] = [q EXCEPT !.pc = "google_login"]]
  /\ UNCHANGED << users, store, aux >>

\* passport's req.logIn(user) after a successful verify, then the route
\* handler up to its first await.  passport < 0.6 writes passport.user into
\* the session it was given; passport >= 0.6 regenerates the session first
\* (the old one is destroyed in the store, the new one saved at once) and
\* keeps none of its fields.  The repository pins no version.  No handler
\* reads passport.user, so the model does not store it: it takes the write
\* to change the session, as it does whenever the session's last login was
\* not of this same user.
GoogleLogin(r) ==
  /\ req[r].pc = "google_login"
  /\ LET q == req[r]
         b == q.browser
         in == IF keepSessionInfo
                 THEN [q EXCEPT !.dirty = TRUE]
                 ELSE [q EXCEPT !.sess = EmptySession, !.dirty = FALSE]
     IN  /\ store' = IF keepSessionInfo THEN store
                     ELSE [store EXCEPT ![b] = EmptySession]
         /\ ttlElapsed' = IF keepSessionInfo THEN ttlElapsed
                          ELSE [ttlElapsed EXCEPT ![b] = FALSE]
         /\ preparedFor' = IF keepSessionInfo THEN preparedFor
                           ELSE [preparedFor EXCEPT ![b] = ""]
         /\ stateFrom' = IF keepSessionInfo THEN stateFrom
                         ELSE [stateFrom EXCEPT ![b] = ""]
         /\ handedOut' = IF in.sess.linkingUserId # NoUser
                           THEN [handedOut EXCEPT ![b] = TRUE]
                           ELSE handedOut
         /\ req' = [req EXCEPT ![r] =
              IF in.sess.linkingUserId # NoUser
                THEN [in EXCEPT !.pc = "google_link",
                                !.uid = in.sess.linkingUserId,
                                !.sess.linkingUserId = NoUser]
                ELSE Responding(in, "token", "")]
  /\ UNCHANGED << tables, keepSessionInfo, tokens >>

\* req.user.provider_id: the provider_id column of the users row that
\* verify handed to done()
UserProviderId(userId) == (CHOOSE u \in users : u.id = userId).provider_id

\* the linking branch of the Google callback handler
GoogleLinkInsert(r) ==
  /\ req[r].pc = "google_link"
  /\ LET q == req[r]
         providerId == UserProviderId(q.user)
     IN  IF ProviderConflict("google", providerId)
           THEN /\ req' = [req EXCEPT ![r] =
                     Responding(q, "redirect /login?error=google",
                                "unique violation")]
                /\ UNCHANGED user_providers
           ELSE /\ user_providers' = InsertProvider(q.uid, "google", providerId)
                /\ req' = [req EXCEPT ![r] =
                     Responding(q, "linked google", "")]
  /\ UNCHANGED << users, store, aux >>

\* ---------------------------------------------------------- environment
\* More than the linking TTL of the specification passes while a link is
\* pending.  No code reads a clock for linkingUserId; the flag only records
\* that the time has passed.
TTLElapses(b) ==
  /\ store[b].linkingUserId # NoUser
  /\ ~ttlElapsed[b]
  /\ ttlElapsed' = [ttlElapsed EXCEPT ![b] = TRUE]
  /\ UNCHANGED << tables, store, req, keepSessionInfo, tokens, handedOut,
                  preparedFor, stateFrom >>

\* cookie.maxAge (30 days) passes without a request: the session is gone
SessionExpires(b) ==
  /\ store[b] # EmptySession
  /\ store[b].linkingUserId # NoUser => ttlElapsed[b]
  /\ \A r \in Reqs : req[r].pc = "idle"
  /\ store' = [store EXCEPT ![b] = EmptySession]
  /\ ttlElapsed' = [ttlElapsed EXCEPT ![b] = FALSE]
  /\ handedOut' = [handedOut EXCEPT ![b] = FALSE]
  /\ preparedFor' = [preparedFor EXCEPT ![b] = ""]
  /\ stateFrom' = [stateFrom EXCEPT ![b] = ""]
  /\ UNCHANGED << tables, req, keepSessionInfo, tokens >>

\* ------------------------------------------------------- specifications
Start(r) ==
  \/ \E u \in UserIds, p \in Providers \cup {"facebook"} : UnlinkCount(r, u, p)
  \/ \E b \in Browsers, u \in UserIds, p \in Providers : PrepareLink(r, b, u, p)
  \/ \E b \in Browsers : LineAuth(r, b)
  \/ \E b \in Browsers : LineLink(r, b)
  \/ \E b \in Browsers, st \in StateValues \cup {NoState},
        x \in LineProfiles \cup {ExchangeFailed} : LineCallback(r, b, st, x)
  \/ \E b \in Browsers, x \in GoogleProfiles \cup {ExchangeFailed} :
        GoogleCallback(r, b, x)

Step(r) ==
  \/ UnlinkDelete(r)
  \/ Respond(r)
  \/ LineLookup(r)
  \/ LineLinkInsert(r)
  \/ TxInsertUser(r)
  \/ \E seeded \in BOOLEAN : TxInsertProviderCommit(r, seeded)
  \/ TxFail(r)
  \/ GoogleLookup(r)
  \/ GoogleEmailLookup(r)
  \/ GoogleFallbackInsert(r)
  \/ GoogleLogin(r)
  \/ GoogleLinkInsert(r)

\* Request slots are interchangeable: a new request takes the first free one.
FirstFree(r) == r = "r1" \/ req["r1"].pc # "idle"

Quiet == \A r \in Reqs : req[r].pc = "idle"

\* The server: any handler may start while another is between two awaits.
\* The run is followed for MaxRequests requests.
Next ==
  \/ \E r \in Reqs :
        /\ FirstFree(r) /\ Start(r)
        /\ started < MaxRequests
        /\ started' = started + 1
  \/ \E r \in Reqs : Step(r) /\ UNCHANGED started
  \/ \E b \in Browsers : SessionExpires(b) /\ UNCHANGED started

Spec == Init /\ [][Next]_vars

\* The same server when requests arrive one at a time.
NextSerial ==
  \/ \E r \in Reqs : Quiet /\ FirstFree(r) /\ Start(r) /\ UNCHANGED started
  \/ \E r \in Reqs : Step(r) /\ UNCHANGED started
  \/ \E b \in Browsers : SessionExpires(b) /\ UNCHANGED started

SpecSerial == Init /\ [][NextSerial]_vars

\* Requests one at a time, with the passage of the linking TTL recorded
\* between requests.
NextTimed ==
  \/ NextSerial
  \/ \E b \in Browsers : Quiet /\ TTLElapses(b) /\ UNCHANGED started

SpecTimed == Init /\ [][NextTimed]_vars

\* ---------------------------------------------------------- properties
Callbacks == {"linecb", "googlecb"}

\* the identity a callback presents is already stored for some user
OwnersOf(q) ==
  IF q.profile = NoProfile THEN {}
  ELSE { up.user_id : up \in
           { x \in ProviderRows : /\ x.provider = q.provider
                                   /\ x.provider_id = q.profile.id } }

\* the users whose primary email is this one
EmailOwners(email) == { u.id : u \in { x \in users : x.email = email } }

\* the step in which request r reaches its response
Answers(r) == req[r].pc \notin {"idle", "respond"} /\ req'[r].pc = "respond"

\* the step in which request r starts
Starts(r) == req[r].pc = "idle" /\ req'[r].pc # "idle"

\* the step in which callback r takes the pending linkingUserId
Obtains(r) ==
  /\ req[r].pc \notin {"line_link", "google_link"}
  /\ req'[r].pc \in {"line_link", "google_link"}

\* callback r holds a pending user id it took from its session
Obtained(r) == req[r].kind \in Callbacks /\ req[r].uid # NoUser

\* user u has a row in a user_providers table
HasLinkIn(table, u) == \E up \in BagToSet(table) : up.user_id = u

\* every row user u has in user_providers is of this provider
OnlyLinkedBy(u, provider) ==
  \A up \in ProviderRows : up.user_id = u => up.provider = provider

\* C1: with requests one at a time, no step takes the last row of a user
\* away, and an unlink of the only provider a user is linked by is answered
\* 400 with both tables as they were.
C1_SerialUnlinkKeepsALink ==
  [][\A r \in Reqs :
       /\ \A u \in users :
            HasLinkIn(user_providers, u.id) => HasLinkIn(user_providers', u.id)
       /\ (/\ Starts(r)
           /\ req'[r].kind = "unlink"
           /\ req'[r].provider \in Providers
           /\ OnlyLinkedBy(req'[r].uid, req'[r].provider))
          => /\ req'[r].pc = "respond"
             /\ req'[r].out = "400"
             /\ tables' = tables]_vars

\* a user linked by both providers unlinked the one the account was created
\* by, and the unlink of the other, now the last, was rejected
C1_Witness ==
  \E r \in Reqs, u \in users :
     /\ req[r].kind = "unlink" /\ req[r].uid = u.id
     /\ req[r].out = "400" /\ req[r].why = "last account"
     /\ BagCardinality(LinksOf(u.id)) = 1
     /\ \A up \in ProviderRows : up.user_id = u.id => up.provider # u.provider

\* C2: when an unlink of google and an unlink of line for the same user have
\* both been answered while both were in flight, at least one of them was
\* rejected and the user still has a row in user_providers.
C2_ConcurrentUnlinksKeepALink ==
  \A r1, r2 \in Reqs :
     (/\ r1 # r2
      /\ req[r1].kind = "unlink" /\ req[r2].kind = "unlink"
      /\ req[r1].pc = "respond" /\ req[r2].pc = "respond"
      /\ req[r1].uid = req[r2].uid
      /\ req[r1].provider = "google" /\ req[r2].provider = "line")
     => /\ req[r1].out = "400" \/ req[r2].out = "400"
        /\ HasLinkIn(user_providers, req[r1].uid)

\* C3: user_providers never holds two rows with the same provider and
\* provider_id, whatever the interleaving of the requests.
C3_OneLinkPerIdentity ==
  \A up1, up2 \in ProviderRows :
     /\ user_providers[up1] = 1
     /\ (up1.provider = up2.provider /\ up1.provider_id = up2.provider_id)
          => up1 = up2

\* two callbacks raced for one identity: the row is stored once and the
\* loser's insert was refused
C3_Witness ==
  \E r \in Reqs :
     /\ req[r].kind \in Callbacks
     /\ req[r].missed
     /\ req[r].why = "unique violation"
     /\ \E up \in ProviderRows : up.provider = req[r].provider

\* C4: a sign-in callback (no link pending) whose lookup missed and that
\* finds, when it answers, the identity stored by a concurrent callback,
\* answers with a token for the user that identity belongs to: no error.
C4_RaceLoserResolvesToWinner ==
  [][\A r \in Reqs :
       (/\ Answers(r)
        /\ req[r].kind \in Callbacks
        /\ req[r].pending = NoUser
        /\ req[r].missed
        /\ OwnersOf(req[r]) # {})
       => /\ req'[r].out = "token"
          /\ req'[r].user \in OwnersOf(req[r])]_vars

\* C5: a user never has two rows of the same provider in user_providers.
C5_OneLinkPerProviderKind ==
  \A u \in users, p \in Providers :
     LET Kind(up) == up.user_id = u.id /\ up.provider = p
     IN  BagCardinality(RowsWhere(Kind)) <= 1

\* C6: a callback that runs with a link pending for one user and whose
\* lookup finds the identity stored for another user is answered with an
\* error, and the rows of the pending user stay as they were.
C6_HijackRejected ==
  [][\A r \in Reqs :
       (/\ Answers(r)
        /\ req[r].kind \in Callbacks
        /\ req[r].pending # NoUser
        /\ ~req[r].missed
        /\ OwnersOf(req[r]) # {}
        /\ req[r].pending \notin OwnersOf(req[r]))
       => /\ req'[r].out \notin {"token", "linked line", "linked google"}
          /\ \A up \in BagToSet(user_providers') :
               up.user_id = req[r].pending => up \in ProviderRows]_vars

\* C7: with requests one at a time, the pending user id of one prepare-link
\* is taken at most once, and the callback whose state is accepted while it
\* is pending is the one that takes it.
C7_PendingHandedOutOnce ==
  [][\A r \in Reqs :
       /\ Obtains(r) => ~handedOut[req[r].browser]
       /\ (/\ Answers(r)
           /\ req[r].kind \in Callbacks
           /\ req[r].accepted
           /\ req[r].pending # NoUser)
          => req'[r].uid = req[r].pending]_vars

\* C8: two callbacks of one browser session that are in flight together
\* never both hold the pending user id.
C8_ConcurrentCallbacksOneObtains ==
  \A r1, r2 \in Reqs :
     (r1 # r2 /\ req[r1].browser = req[r2].browser)
       => ~(Obtained(r1) /\ Obtained(r2))

\* C9: when a callback whose state was accepted while a link was pending
\* has finished, the session holds no pending link, whatever the outcome.
C9_AcceptedCallbackClearsPending ==
  [][\A r \in Reqs :
       (/\ req[r].pc = "respond" /\ req'[r].pc = "idle"
        /\ req[r].kind \in Callbacks
        /\ req[r].accepted
        /\ req[r].pending # NoUser)
       => store'[req[r].browser].linkingUserId = NoUser]_vars

\* C10: no callback takes a pending user id whose time to live had passed
\* before the callback arrived.
C10_PendingLinkExpires ==
  [][\A r \in Reqs : Obtains(r) => ~ttlElapsed[req[r].browser]]_vars

\* the row of user_providers a new-user transaction stores with users row u
FirstLink(u) ==
  [user_id |-> u.id, provider |-> u.provider, provider_id |-> u.provider_id]

\* C11: whatever the interleaving, a users row appears only together with
\* its first user_providers row, every user_providers row belongs to a
\* stored user, and a new-user transaction that fails between its two
\* inserts leaves neither row behind.
C11_NewUserAtomic ==
  [][/\ \A u \in users' \ users :
          FirstLink(u) \in BagToSet(user_providers')
     /\ \A up \in BagToSet(user_providers') :
          \E u \in users' : u.id = up.user_id
     /\ \A r \in Reqs :
          (Answers(r) /\ req'[r].why = "database failure")
            => /\ tables' = tables
               /\ \A u \in users' : u.id # req[r].newUser]_vars

\* a transaction was interrupted after its users insert and nothing of it
\* is stored
C11_Witness ==
  \E r \in Reqs :
     /\ req[r].kind \in Callbacks
     /\ req[r].why = "database failure"
     /\ users = {} /\ user_providers = EmptyBag

\* request r takes a step
Steps(r) == req'[r] # req[r]

\* the handler of request r takes a step (not the saving of the session
\* that ends the request)
Works(r) == req[r].pc \notin {"idle", "respond"} /\ req'[r] # req[r]

\* a sign-in callback (no link pending) that holds a profile whose identity
\* is stored for nobody and whose email is the primary email of nobody
Fresh(q) ==
  /\ q.kind \in Callbacks
  /\ q.profile # NoProfile
  /\ q.pending = NoUser
  /\ OwnersOf(q) = {}
  /\ EmailOwners(NewUserEmail(q)) = {}

\* a sign-in callback (no link pending) whose identity is stored when it
\* looks it up
Returning(q) ==
  /\ q.kind \in Callbacks
  /\ q.profile # NoProfile
  /\ q.pending = NoUser
  /\ ~q.missed
  /\ OwnersOf(q) # {}

Merging(q) ==
  /\ q.kind = "googlecb"
  /\ q.profile # NoProfile
  /\ q.pending = NoUser
  /\ q.missed
  /\ EmailOwners(q.profile.email) # {}

\* C13: with requests one at a time, a Google sign-in callback whose
\* identity is stored for nobody and whose email is a stored user's primary
\* email stores no user, adds exactly the row (that user, google, subject
\* id) and is answered with a token for that user.
C13_GoogleEmailFallback ==
  [][\A r \in Reqs :
       (Merging(req[r]) /\ Works(r))
         => /\ users' = users
            /\ req[r].pc \in {"google_email", "google_fallback", "google_login"}
            /\ req'[r].user \in EmailOwners(req[r].profile.email)
            /\ user_providers' =
                 IF req[r].pc = "google_fallback"
                   THEN user_providers (+) SetToBag(
                          { [user_id |-> req'[r].user, provider |-> "google",
                             provider_id |-> req[r].profile.id] })
                   ELSE user_providers
            /\ Answers(r) => /\ req'[r].out = "token"
                             /\ OwnersOf(req[r]) = {req'[r].user}]_vars

\* a user created through LINE holds a token from a Google callback that
\* found the user by email, and has one row of each provider
C13_Witness ==
  \E r \in Reqs, u \in users :
     /\ req[r].kind = "googlecb" /\ req[r].pending = NoUser
     /\ req[r].missed /\ req[r].out = "token"
     /\ req[r].user = u.id /\ u.provider = "line"
     /\ BagCardinality(LinksOf(u.id)) = 2
     /\ \E up \in ProviderRows : up.user_id = u.id /\ up.provider = "google"

\* a LINE callback whose state was accepted while a link was pending and
\* whose identity is stored for nobody
Linking(q) ==
  /\ q.kind = "linecb"
  /\ q.profile # NoProfile
  /\ q.accepted
  /\ q.pending # NoUser
  /\ OwnersOf(q) = {}

\* C14: with requests one at a time, a LINE callback with an accepted state,
\* a link pending for user U and an identity stored for nobody takes the
\* linking branch, stores no user, adds exactly the row (U, line, subject
\* id) and is answered with the linked redirect.
C14_LineLinkingHappyPath ==
  [][\A r \in Reqs :
       (Linking(req[r]) /\ Works(r))
         => /\ users' = users
            /\ \/ /\ req[r].pc = "line_lookup"
                  /\ req'[r].pc = "line_link"
                  /\ req'[r].uid = req[r].pending
                  /\ user_providers' = user_providers
               \/ /\ req[r].pc = "line_link"
                  /\ req'[r].pc = "respond"
                  /\ req'[r].out = "linked line"
                  /\ user_providers' = user_providers (+) SetToBag(
                       { [user_id |-> req[r].pending, provider |-> "line",
                          provider_id |-> req[r].profile.id] })]_vars

\* a user created through Google was answered a linked redirect and holds
\* a line row
C14_Witness ==
  \E r \in Reqs, u \in users :
     /\ req[r].kind = "linecb" /\ req[r].out = "linked line"
     /\ req[r].pending = u.id /\ u.provider = "google"
     /\ \E up \in ProviderRows : up.user_id = u.id /\ up.provider = "line"

\* C15: with requests one at a time, a callback that runs with a link
\* pending for the user who already owns the presented identity changes
\* neither table and is not answered with an error.
C15_RelinkSameUserIsNoOp ==
  [][\A r \in Reqs :
       (/\ req[r].kind \in Callbacks
        /\ req[r].profile # NoProfile
        /\ req[r].accepted
        /\ req[r].pending # NoUser
        /\ req[r].pending \in OwnersOf(req[r])
        /\ Works(r))
       => /\ tables' = tables
          /\ Answers(r) =>
               req'[r].out \in {"token", "linked line", "linked google"}]_vars

\* C16: a LINE callback whose state parameter is missing or is not the
\* lineState of its session is answered at once with the error redirect,
\* without a profile having been fetched, and neither that step nor any
\* later step of the request changes users or user_providers.
C16_StateMismatchRejected ==
  [][\A r \in Reqs :
       /\ (/\ Starts(r)
           /\ req'[r].kind = "linecb"
           /\ \/ req'[r].state = NoState
              \/ req'[r].state # store[req'[r].browser].lineState)
          => /\ req'[r].pc = "respond"
             /\ req'[r].out = "error line_oauth_failed"
             /\ req'[r].why = "state mismatch"
             /\ req'[r].profile = NoProfile
             /\ tables' = tables
       /\ (req[r].why = "state mismatch" /\ Steps(r)) => tables' = tables]_vars

\* a callback presented a state while the session held a different one and
\* was rejected
C16_Witness ==
  \E r \in Reqs :
     /\ req[r].kind = "linecb" /\ req[r].why = "state mismatch"
     /\ req[r].state # NoState
     /\ store[req[r].browser].lineState # NoState
     /\ req[r].state # store[req[r].browser].lineState

\* what a callback that failed answers with
ErrorOuts ==
  {"error line_oauth_failed", "redirect /login?error=google",
   "500 verify error"}

\* a Google callback past verify whose lookup missed: verify has stored a
\* row for it, by the email fallback or by the new-user transaction
WroteInVerify(q) ==
  /\ q.kind = "googlecb"
  /\ q.missed
  /\ q.pc \in {"google_login", "google_link"}

\* C17: with requests one at a time, a callback that is answered with an
\* error has stored nothing: not in the step that answers, not before.
C17_FailedLeavesStorageUnchanged ==
  [][\A r \in Reqs :
       (/\ req[r].kind \in Callbacks
        /\ Answers(r)
        /\ req'[r].out \in ErrorOuts)
       => /\ tables' = tables
          /\ ~WroteInVerify(req[r])]_vars

\* C18: a callback that has been answered was answered either with the
\* redirect that carries a token or with a redirect that carries an error
\* code.
C18_TokenOrErrorRedirect ==
  \A r \in Reqs :
     (req[r].kind \in Callbacks /\ req[r].pc = "respond")
       => req[r].out \in {"token", "error line_oauth_failed",
                          "redirect /login?error=google"}

\* C19: with requests one at a time, once the row of the identity a user
\* was created with is gone (only an unlink removes it), no step of a
\* sign-in callback (no link pending) presenting that identity stores the
\* row again or answers with a token for that user.
C19_UnlinkRemovesSignIn ==
  [][\A r \in Reqs, u \in users :
       (/\ req[r].kind \in Callbacks
        /\ req[r].pending = NoUser
        /\ req[r].profile # NoProfile
        /\ u.provider = req[r].provider
        /\ u.provider_id = req[r].profile.id
        /\ FirstLink(u) \notin ProviderRows
        /\ Works(r))
       => /\ FirstLink(u) \notin BagToSet(user_providers')
          /\ ~(req'[r].out = "token" /\ req'[r].user = u.id)]_vars

\* C20: with requests one at a time, the lookup step of a sign-in callback
\* whose identity is stored decides the user at once: the owner of the
\* identity, never another user who has the profile's email; no email
\* lookup and no insert follows, and the tables stay as they were.
C20_DirectMatchBeforeEmail ==
  [][\A r \in Reqs :
       /\ (/\ Returning(req[r])
           /\ req[r].pc \in {"line_lookup", "google_lookup"}
           /\ Works(r))
          => /\ req'[r].pc \notin {"google_email", "google_fallback",
                                   "tx_user", "tx_provider"}
             /\ req'[r].user \in OwnersOf(req[r])
             /\ req'[r].user \notin
                  EmailOwners(NewUserEmail(req[r])) \ OwnersOf(req[r])
             /\ ~req'[r].missed
       /\ (Returning(req[r]) /\ Works(r)) => tables' = tables]_vars

\* a sign-in callback was answered with a token for the owner of the
\* identity it presented while the profile's email is the primary email of
\* another user
C20_Witness ==
  \E r \in Reqs :
     /\ req[r].kind \in Callbacks /\ req[r].pc = "respond"
     /\ req[r].pending = NoUser /\ ~req[r].missed
     /\ req[r].out = "token"
     /\ req[r].user \in OwnersOf(req[r])
     /\ EmailOwners(NewUserEmail(req[r])) \ {req[r].user} # {}

\* a LINE sign-in callback (no link pending) whose lookup missed and whose
\* profile discloses an email that is a stored user's primary email
LineMerging(q) ==
  /\ q.kind = "linecb"
  /\ q.profile # NoProfile
  /\ q.pending = NoUser
  /\ q.missed
  /\ q.profile.email # ""
  /\ EmailOwners(q.profile.email) # {}

\* C21: with requests one at a time, a LINE sign-in callback whose identity
\* is stored for nobody and whose profile email is a stored user's primary
\* email stores no user and is answered with a token for that user, the
\* row (that user, line, subject id) having been added: not with an error.
C21_LineEmailFallback ==
  [][\A r \in Reqs :
       (LineMerging(req[r]) /\ Works(r))
         => /\ users' = users
            /\ Answers(r) =>
                 /\ req'[r].out = "token"
                 /\ req'[r].user \in EmailOwners(req[r].profile.email)
                 /\ OwnersOf(req[r]) = {}
                 /\ [user_id |-> req'[r].user, provider |-> "line",
                     provider_id |-> req[r].profile.id]
                      \in BagToSet(user_providers')]_vars

\* C22: with requests one at a time, no step of a Google callback that runs
\* with a link pending for user U stores a user, and when the presented
\* identity was stored for nobody the only rows such a callback adds to
\* user_providers are the one row (U, google, subject id).
C22_GoogleLinkingOnlyAddsLink ==
  [][\A r \in Reqs :
       (/\ req[r].kind = "googlecb"
        /\ req[r].profile # NoProfile
        /\ req[r].pending # NoUser
        /\ Works(r))
       => /\ users' = users
          /\ (req[r].missed /\ user_providers' # user_providers)
               => user_providers' = user_providers (+) SetToBag(
                    { [user_id |-> req[r].pending, provider |-> "google",
                       provider_id |-> req[r].profile.id] })]_vars

\* the state parameter callback q presented is the anti-forgery value its
\* session held when the callback arrived
StateVerified(q) == q.state # NoState /\ q.state = q.sess.lineState

\* C23: with requests one at a time, a step of a callback of either
\* provider that changes users or user_providers, or that answers with a
\* token, belongs to a callback whose state parameter was present and equal
\* to the value stored in its session.
C23_NoEffectWithoutVerifiedState ==
  [][\A r \in Reqs :
       (/\ req[r].kind \in Callbacks
        /\ Works(r)
        /\ tables' # tables \/ req'[r].out = "token")
       => StateVerified(req[r])]_vars

\* C24: with requests one at a time, when a LINE callback whose state S
\* passed the state check has finished, in a login, in a link or in a
\* failure, its browser session no longer holds S, so that a later callback
\* presenting S is rejected as a state mismatch.
C24_StateAcceptedOnce ==
  [][\A r \in Reqs :
       (/\ req[r].pc = "respond" /\ req'[r].pc = "idle"
        /\ req[r].kind = "linecb"
        /\ req[r].accepted)
       => /\ store'[req[r].browser].lineState # req[r].state
          /\ StateRejected(req[r].state, store'[req[r].browser])]_vars

\* C25: with requests one at a time, a callback takes the pending user id
\* only if the pending link was prepared through the prepare-link route of
\* the callback's own provider, and a linking insert binds an identity to
\* the pending user only under the same condition.
C25_PendingLinkIsPerProvider ==
  [][\A r \in Reqs :
       /\ Obtains(r) => preparedFor[req[r].browser] = req[r].provider
       /\ (/\ req[r].pc \in {"line_link", "google_link"}
           /\ user_providers' # user_providers)
          => preparedFor[req[r].browser] = req[r].provider]_vars

\* C26: with requests one at a time, a LINE callback takes the pending user
\* id, and binds its identity to the pending user, only if the state it
\* presents was issued by GET /api/auth/line/link: never when it was issued
\* by the plain sign-in route GET /api/auth/line.
C26_LinkingOnlyThroughLinkRoute ==
  [][\A r \in Reqs :
       (/\ req[r].kind = "linecb"
        /\ \/ Obtains(r)
           \/ req[r].pc = "line_link" /\ user_providers' # user_providers)
       => stateFrom[req[r].browser] = "linelink"]_vars

\* C27: with requests one at a time, when the seeding of default categories
\* and of the default prompt fails for the user a callback is creating, the
\* step that answers the callback leaves no users row and no user_providers
\* row of that user behind.
C27_SeedingFailureUndoesUser ==
  [][\A r \in Reqs :
       (/\ req[r].kind \in Callbacks
        /\ Answers(r)
        /\ req'[r].why = "seeding failed")
       => /\ \A u \in users' : u.id # req[r].newUser
          /\ ~HasLinkIn(user_providers', req[r].newUser)]_vars

\* the users holding, in a user_providers table, the identity callback q
\* presents
OwnersIn(table, q) ==
  { up.user_id : up \in
      { x \in BagToSet(table) : /\ x.provider = q.provider
                                /\ x.provider_id = q.profile.id } }

\* the step in which callback r has decided which user it signs in: a LINE
\* callback when it answers with the token, a Google callback when verify
\* hands the user to done()
Resolves(r) ==
  /\ req[r].kind \in Callbacks
  /\ Works(r)
  /\ \/ req[r].kind = "linecb" /\ req'[r].out = "token"
     \/ req[r].pc # "google_login" /\ req'[r].pc = "google_login"

\* C28 (as amended): whatever the interleaving, the step in which a
\* callback decides the user it signs in leaves that user, a stored user,
\* as the holder in user_providers of the identity (provider, subject id)
\* of the profile the callback presented, and a token the callback then
\* issues names that user.
C28_TokenNamesResolvedOwner ==
  [][\A r \in Reqs :
       /\ Resolves(r)
            => /\ req[r].profile # NoProfile
               /\ req'[r].user \in OwnersIn(user_providers', req[r])
               /\ \E u \in users' : u.id = req'[r].user
       /\ (/\ req[r].kind \in Callbacks
           /\ Answers(r)
           /\ req'[r].out = "token")
            => \/ Resolves(r)
               \/ req[r].pc = "google_login" /\ req'[r].user = req[r].user]_vars

\* a callback was answered with a token for a user who holds the presented
\* identity without having been created from it
C28_Witness ==
  \E r \in Reqs, u \in users :
     /\ req[r].kind \in Callbacks /\ req[r].pc = "respond"
     /\ req[r].out = "token"
     /\ req[r].user = u.id
     /\ u.provider_id # req[r].profile.id
     /\ u.id \in OwnersOf(req[r])

\* C28 (as claimed): the step in which a callback answers with a token
\* leaves the user the token names as the holder, in user_providers, of the
\* identity (provider, subject id) of the profile that callback presented.
C28_TokenNamesOwnerOfIdentity ==
  [][\A r \in Reqs :
       (/\ req[r].kind \in Callbacks
        /\ Answers(r)
        /\ req'[r].out = "token")
       => /\ req[r].profile # NoProfile
          /\ req'[r].user \in OwnersIn(user_providers', req[r])
          /\ \E u \in users' : u.id = req'[r].user]_vars

\* the rows a step adds to user_providers
RowsAdded ==
  { up \in BagToSet(user_providers') :
      CopiesIn(up, user_providers') > CopiesIn(up, user_providers) }

\* C29: with requests one at a time, every row a step of a callback adds to
\* user_providers carries the callback's own provider kind and the subject
\* id of the profile the provider reported to that callback.
C29_LinkCarriesReportedSubject ==
  [][\A r \in Reqs :
       (req[r].kind \in Callbacks /\ Works(r))
         => \A up \in RowsAdded :
              /\ req[r].profile # NoProfile
              /\ up.provider = req[r].provider
              /\ up.provider_id = req[r].profile.id]_vars

\* C30: with requests one at a time, a sign-in callback (no link pending)
\* that holds a successfully exchanged profile is answered with a token,
\* whatever sign-ins, links and unlinks came before, unless the database
\* itself failed during the request.
C30_SignInAlwaysPossible ==
  [][\A r \in Reqs :
       (/\ req[r].kind \in Callbacks
        /\ req[r].pending = NoUser
        /\ req[r].profile # NoProfile
        /\ Answers(r)
        /\ req'[r].why \notin {"database failure", "seeding failed"})
       => /\ req'[r].out = "token"
          /\ \E u \in users' : u.id = req'[r].user]_vars

====
